---- MODULE Spec2Model ----
(***************************************************************************)
(* Model of the code generator of thriftrw-go (gen/generator.go): the      *)
(* Generator accumulates declarations rendered from templates and the      *)
(* imports they need, and writes them out as one file.                     *)
(*                                                                         *)
(* Strings that the program takes apart (import paths, import names) are   *)
(* sequences of one-character strings, so that the last path segment, a    *)
(* numeric suffix and the byte order of two paths are computed, not        *)
(* assumed.                                                                *)
(***************************************************************************)
EXTENDS Integers, Sequences, FiniteSets, TLC

\* Largest number of declarations the generator accumulates in a run.
MaxDecls == 3

\* Largest number of actions (function calls, pieces of text) in a template.
MaxOps == 2

\* The absent value: a nil error, a nil *ast.Ident, a nil ast.Decl.
Nil == "nil"

(***************************************************************************)
(* Strings                                                                 *)
(***************************************************************************)

\* The characters in use, in byte order ('/' < digits < lower-case letters).
ByteOrder == <<"/", "0", "1", "2", "3", "4", "5", "6", "7", "8", "9",
               "a", "b", "c", "u", "x">>

Rank(c) == CHOOSE i \in 1..Len(ByteOrder) : ByteOrder[i] = c

\* s < t in the byte-wise order of Go strings.
RECURSIVE StrLess(_, _)
StrLess(s, t) ==
    IF t = <<>> THEN FALSE
    ELSE IF s = <<>> THEN TRUE
    ELSE IF Head(s) # Head(t) THEN Rank(Head(s)) < Rank(Head(t))
    ELSE StrLess(Tail(s), Tail(t))

\* The decimal digits of n >= 0 (strconv.Itoa).
RECURSIVE Itoa(_)
Itoa(n) ==
    IF n < 10 THEN <<ByteOrder[n + 2]>>
    ELSE Itoa(n \div 10) \o <<ByteOrder[(n % 10) + 2]>>

\* The part of a path after its last '/' (the whole path when it has none).
RECURSIVE LastSegment(_)
LastSegment(path) ==
    IF \A i \in 1..Len(path) : path[i] # "/" THEN path
    ELSE LastSegment(Tail(path))

\* The import paths and the explicit import names of the model.
PathAU == <<"a", "/", "u">>
PathBU == <<"b", "/", "u">>
PathCU1 == <<"c", "/", "u", "1">>

NameU1 == <<"u", "1">>
NameX == <<"x">>

(***************************************************************************)
(* The importer embedded in Generator.  importer.go is not among the       *)
(* sources; it is modelled from section 4.1 of the specification.  The map *)
(* binds each registered path to its alias.                                *)
(***************************************************************************)

\* The aliases bound in import map m.
Aliases(m) == {m[p] : p \in DOMAIN m}

\* m with path bound to alias.
Bind(m, path, alias) ==
    [p \in DOMAIN m \cup {path} |-> IF p = path THEN alias ELSE m[p]]

\* name followed by the first numeric suffix n, n+1, ... that no alias of m has.
RECURSIVE Suffixed(_, _, _)
Suffixed(m, name, n) ==
    IF (name \o Itoa(n)) \notin Aliases(m) THEN name \o Itoa(n)
    ELSE Suffixed(m, name, n + 1)

\* Disambiguate that tries the suffix 1 and no other.
Disambiguate_OneSuffix(m, name) ==
    IF name \notin Aliases(m) THEN name ELSE name \o Itoa(1)

\* The alias a new path gets when it asks for name.
Disambiguate(m, name) ==
    IF name \notin Aliases(m) THEN name ELSE Suffixed(m, name, 1)

\* newImporter: no import is registered.
newImporter == [p \in {} |-> <<>>]

\* Import(path), the template function `import` (Request of section 4.1):
\* the import map afterwards and the alias returned.
Import(m, path) ==
    IF path \in DOMAIN m THEN [imports |-> m, alias |-> m[path]]
    ELSE LET a == Disambiguate(m, LastSegment(path))
         IN  [imports |-> Bind(m, path, a), alias |-> a]

\* addImportSpec that binds the path again when it is already registered.
addImportSpec_Rebind(m, spec) ==
    Bind(m, spec.path,
         Disambiguate(m, IF spec.name = <<>> THEN LastSegment(spec.path)
                         ELSE spec.name))

\* addImportSpec(spec) (MergeLiteral of section 4.1): spec.name is <<>> for an
\* import statement without a name.
addImportSpec(m, spec) ==
    IF spec.path \in DOMAIN m THEN m
    ELSE Bind(m, spec.path,
              Disambiguate(m, IF spec.name = <<>> THEN LastSegment(spec.path)
                              ELSE spec.name))

\* SortPaths with the comparison turned around.
RECURSIVE SortPaths_Descending(_)
SortPaths_Descending(S) ==
    IF S = {} THEN <<>>
    ELSE LET last == CHOOSE p \in S : \A q \in S \ {p} : StrLess(q, p)
         IN  <<last>> \o SortPaths_Descending(S \ {last})

\* The paths of set S in increasing byte order.
RECURSIVE SortPaths(_)
SortPaths(S) ==
    IF S = {} THEN <<>>
    ELSE LET least == CHOOSE p \in S : \A q \in S \ {p} : StrLess(p, q)
         IN  <<least>> \o SortPaths(S \ {least})

\* A declaration: kind is "type" (any declaration that is not an import),
\* "import" (a GenDecl with Tok = IMPORT and its specs), "junk" (text that is
\* no declaration) or "nil" (no declaration).
MkDecl(kind, name, specs) == [kind |-> kind, name |-> name, specs |-> specs]
NilDecl == MkDecl("nil", "", <<>>)
ImportDecl(specs) == MkDecl("import", "", specs)
ImportSpec(path, name) == [path |-> path, name |-> name]

\* importDecl() (FinalBlock of section 4.1): nil when nothing is registered,
\* else one import declaration with a spec per path, sorted by path.
importDecl(m) ==
    IF DOMAIN m = {} THEN NilDecl
    ELSE LET ps == SortPaths(DOMAIN m)
         IN  ImportDecl([i \in 1..Len(ps) |-> ImportSpec(ps[i], m[ps[i]])])

(***************************************************************************)
(* Templates.  A template is what text/template makes of its text: whether *)
(* the text parses, and the actions it runs in order.  An action calls the *)
(* template function `import`, reads a field of the data, or copies text   *)
(* that holds one top-level declaration.  The data is the set of fields it *)
(* has.                                                                    *)
(***************************************************************************)

MkOp(op, path, fld, decl) == [op |-> op, path |-> path, fld |-> fld, decl |-> decl]
OpImport(path) == MkOp("import", path, "", NilDecl)
OpField(fld) == MkOp("field", <<>>, fld, NilDecl)
OpText(decl) == MkOp("text", <<>>, "", decl)

TypeDecls == {MkDecl("type", n, <<>>) : n \in {"T1", "T2"}}
JunkDecl == MkDecl("junk", "", <<>>)

\* The import statements written out in template text:
\*   import ( x "a/u"; "c/u1" )   and   import u1 "b/u"
LiteralImports ==
    { ImportDecl(<<ImportSpec(PathAU, NameX), ImportSpec(PathCU1, <<>>)>>),
      ImportDecl(<<ImportSpec(PathBU, NameU1)>>) }

Ops ==
    {OpImport(p) : p \in {PathAU, PathBU}} \cup {OpField("Name")}
    \cup {OpText(d) : d \in TypeDecls \cup LiteralImports \cup {JunkDecl}}

RECURSIVE SeqsUpTo(_, _)
SeqsUpTo(S, n) ==
    IF n = 0 THEN {<<>>}
    ELSE LET shorter == SeqsUpTo(S, n - 1)
         IN  shorter \cup {Append(s, x) : s \in shorter, x \in S}

\* The well-formed templates, and the malformed ones with the action their
\* text would run if it parsed.
Templates ==
    [syntaxOK : {TRUE}, ops : SeqsUpTo(Ops, MaxOps)]
    \cup [syntaxOK : {FALSE}, ops : SeqsUpTo(Ops, 1)]
Datas == {{}, {"Name"}}

\* The calls of DeclareFromTemplate: a template and its data.  Data that
\* differ only in fields the template does not read make the same call.
ReadsField(s) == \E i \in 1..Len(s.ops) : s.ops[i].op = "field"
Calls == {c \in Templates \X Datas : ReadsField(c[1]) \/ c[2] = {}}

ErrTemplateSyntax == "TemplateSyntaxError"
ErrTemplateExecution == "TemplateExecutionError"
ErrRenderedSyntax == "RenderedSyntaxError"

(***************************************************************************)
(* Generator: the importer's map and decls.                                *)
(***************************************************************************)

Generator(imports, decls) == [imports |-> imports, decls |-> decls]

\* NewGenerator
NewGenerator == Generator(newImporter, <<>>)

\* tmpl.Execute(buff, data) with "import" bound to g.Import: the actions run
\* in order against import map m, each piece of text goes to buf, and the
\* first field the data lacks ends the run with an error.  The import map is
\* the generator's own, so what `import` registered stays registered.
RECURSIVE Execute(_, _, _, _)
Execute(ops, data, m, buf) ==
    IF ops = <<>> THEN [err |-> Nil, imports |-> m, bs |-> buf]
    ELSE LET o == Head(ops) IN
         CASE o.op = "import" ->
                Execute(Tail(ops), data, Import(m, o.path).imports, buf)
           [] o.op = "field" ->
                IF o.fld \in data THEN Execute(Tail(ops), data, m, buf)
                ELSE [err |-> ErrTemplateExecution, imports |-> m, bs |-> <<>>]
           [] o.op = "text" ->
                Execute(Tail(ops), data, m, Append(buf, o.decl))

\* renderTemplate that runs the template's actions before it reports the
\* error of Parse.
renderTemplate_ExecutesFirst(g, s, data) ==
    LET r == Execute(s.ops, data, g.imports, <<>>)
    IN  IF ~s.syntaxOK
        THEN [err |-> ErrTemplateSyntax, imports |-> r.imports, bs |-> <<>>]
        ELSE r

\* renderTemplate(s, data): Parse fails before anything runs; else Execute.
renderTemplate(g, s, data) ==
    IF ~s.syntaxOK
    THEN [err |-> ErrTemplateSyntax, imports |-> g.imports, bs |-> <<>>]
    ELSE Execute(s.ops, data, g.imports, <<>>)

\* parser.ParseFile(bs): the declarations of the rendered text.  It is an
\* error for the text to hold something that is no declaration, or an import
\* after a declaration that is not an import.
ParseFile(bs) ==
    IF \/ \E i \in 1..Len(bs) : bs[i].kind = "junk"
       \/ \E i, j \in 1..Len(bs) : i < j /\ bs[i].kind # "import" /\ bs[j].kind = "import"
    THEN [err |-> ErrRenderedSyntax, Decls |-> <<>>]
    ELSE [err |-> Nil, Decls |-> bs]

\* appendDecl that puts the declaration in front.
appendDecl_Prepend(g, decl) == Generator(g.imports, <<decl>> \o g.decls)

\* appendDecl(decl)
appendDecl(g, decl) == Generator(g.imports, Append(g.decls, decl))

\* The loop over the specs writing each spec's own name into the import map
\* instead of handing the spec to addImportSpec.
RECURSIVE addImportSpecs_Direct(_, _)
addImportSpecs_Direct(g, imports) ==
    IF imports = <<>> THEN g
    ELSE LET imp == Head(imports)
             name == IF imp.name = <<>> THEN LastSegment(imp.path) ELSE imp.name
         IN  addImportSpecs_Direct(
                 Generator(IF imp.path \in DOMAIN g.imports THEN g.imports
                           ELSE Bind(g.imports, imp.path, name), g.decls),
                 Tail(imports))

\* The loop over the specs of one import declaration (lines 140-147).
RECURSIVE addImportSpecs(_, _)
addImportSpecs(g, imports) ==
    IF imports = <<>> THEN g
    ELSE addImportSpecs(Generator(addImportSpec(g.imports, Head(imports)), g.decls),
                        Tail(imports))

\* The loop over f.Decls without the test for import declarations.
RECURSIVE declareDecls_AppendsAll(_, _)
declareDecls_AppendsAll(g, Decls) ==
    IF Decls = <<>> THEN g
    ELSE declareDecls_AppendsAll(appendDecl(g, Head(Decls)), Tail(Decls))

\* The loop over f.Decls (lines 133-148).
RECURSIVE declareDecls(_, _)
declareDecls(g, Decls) ==
    IF Decls = <<>> THEN g
    ELSE LET decl == Head(Decls) IN
         IF decl.kind # "import"
         THEN declareDecls(appendDecl(g, decl), Tail(Decls))
         ELSE declareDecls(addImportSpecs(g, decl.specs), Tail(Decls))

\* DeclareFromTemplate that takes up the partial file ParseFile returns beside
\* its error (the declarations it could parse) before it returns the error.
DeclareFromTemplate_KeepsPartial(g, s, data) ==
    LET r == renderTemplate(g, s, data)
        rendered == Generator(r.imports, g.decls)
    IN  IF r.err # Nil THEN [g |-> rendered, err |-> r.err]
        ELSE LET f == ParseFile(r.bs)
                 partial == SelectSeq(r.bs, LAMBDA d : d.kind # "junk")
             IN  IF f.err # Nil
                 THEN [g |-> declareDecls(rendered, partial), err |-> f.err]
                 ELSE [g |-> declareDecls(rendered, f.Decls), err |-> Nil]

\* DeclareFromTemplate(s, data): the generator afterwards and the error.
DeclareFromTemplate(g, s, data) ==
    LET r == renderTemplate(g, s, data)
        rendered == Generator(r.imports, g.decls)
    IN  IF r.err # Nil THEN [g |-> rendered, err |-> r.err]
        ELSE LET f == ParseFile(r.bs)
             IN  IF f.err # Nil THEN [g |-> rendered, err |-> f.err]
                 ELSE [g |-> declareDecls(rendered, f.Decls), err |-> Nil]

\* The ast.File Write hands to format.Node.
File(decls) == [Name |-> "todo", Decls |-> decls]

ErrFormat == "FormatError"
ErrSink == "WriteError"

\* How a call of format.Node can end: the file is printed and written to w;
\* printing fails; or printing succeeds and w fails while it takes the text.
Outcomes == {"ok", "format", "sink"}

\* format.Node(w, fs, file): the error and what reached w.  The file is
\* printed in memory before anything goes to w, so a printing error leaves w
\* untouched; a failing w has taken a part of the text, here the file without
\* its last declaration.
FormatNode(file, outcome) ==
    CASE outcome = "ok" -> [err |-> Nil, written |-> <<file>>]
      [] outcome = "format" -> [err |-> ErrFormat, written |-> <<>>]
      [] outcome = "sink" ->
            [err |-> ErrSink,
             written |-> IF file.Decls = <<>> THEN <<>>
                         ELSE <<File(SubSeq(file.Decls, 1, Len(file.Decls) - 1))>>]

\* The declarations Write assembles (lines 160-165).
WriteDecls(g) ==
    LET imp == importDecl(g.imports)
    IN  (IF imp # NilDecl THEN <<imp>> ELSE <<>>) \o g.decls

\* Write that empties the importer once it has taken the import declaration.
Write_ResetsImporter(g, outcome) ==
    LET r == FormatNode(File(WriteDecls(g)), outcome)
    IN  [g |-> Generator(newImporter, g.decls), err |-> r.err,
         written |-> r.written]

\* Write that assembles the file in g.decls itself.
Write_StoresDecls(g, outcome) ==
    LET r == FormatNode(File(WriteDecls(g)), outcome)
    IN  [g |-> Generator(g.imports, WriteDecls(g)), err |-> r.err,
         written |-> r.written]

\* Write that puts the import declaration after the declarations.
Write_ImportLast(g, outcome) ==
    LET imp == importDecl(g.imports)
        decls == g.decls \o (IF imp # NilDecl THEN <<imp>> ELSE <<>>)
        r == FormatNode(File(decls), outcome)
    IN  [g |-> g, err |-> r.err, written |-> r.written]

\* Write that writes the package clause to w itself before it formats the
\* declarations.
Write_HeaderFirst(g, outcome) ==
    LET r == FormatNode(File(WriteDecls(g)), outcome)
    IN  [g |-> g, err |-> r.err, written |-> <<File(<<>>)>> \o r.written]

\* Write(w, fs): the generator afterwards, the error and what was written
\* to w.
Write(g, outcome) ==
    LET r == FormatNode(File(WriteDecls(g)), outcome)
    IN  [g |-> g, err |-> r.err, written |-> r.written]

(***************************************************************************)
(* The state machine: one generator, driven by Declare and Write calls.    *)
(* Beside it runs a second generator that receives the same Declare calls  *)
(* and is never written, and a record of what the successful calls         *)
(* rendered.                                                               *)
(***************************************************************************)

VARIABLES
    imports,    \* g.importer: path -> alias
    decls,      \* g.decls
    op,         \* the last call: "new", "Declare" or "Write"
    err,        \* the error the last call returned
    written,    \* what the last call wrote to its writer
    imports2,   \* the second generator's importer
    decls2,     \* the second generator's decls
    rendered,   \* the declarations, imports left out, that the successful
                \* Declare calls rendered, in call order
    literals    \* the paths of the import statements they rendered

gvars == <<imports, decls, op, err, written, imports2, decls2, rendered, literals>>

(***************************************************************************)
(* The frame Server (lines 199-294): goroutines call Serve and Stop on one *)
(* Server.  Each atomic operation and each call on the reader, the handler *)
(* and the writer is a step of its own.                                    *)
(***************************************************************************)

\* The goroutines that call Serve and Stop.
NumGoroutines == 2

\* The calls of Serve and Stop they make in all.
MaxCalls == 4

\* The frames that arrive at the reader in all.
MaxFrames == 2

Procs == 1..NumGoroutines

VARIABLES
    running,            \* s.running
    shouldCloseReader,  \* s.shouldCloseReader
    shouldCloseWriter,  \* s.shouldCloseWriter
    rClosed,            \* s.r has been closed
    wClosed,            \* s.w has been closed
    rBroken,            \* the stream under s.r has failed
    pending,            \* frames that have arrived and are not read yet
    arrived,            \* frames that have arrived in all
    calls,              \* calls made in all
    pc,                 \* where each goroutine is
    call,               \* the call each goroutine made last
    ret,                \* what that call returned ("none" while it runs)
    nread,              \* requests the call has read
    nhandled,           \* requests its handler has answered
    nwritten,           \* responses it has written
    stopped             \* Stop has been called while this Serve call ran

svars == <<running, shouldCloseReader, shouldCloseWriter, rClosed, wClosed,
           rBroken, pending, arrived, calls, pc, call, ret, nread, nhandled,
           nwritten, stopped>>

vars == <<gvars, svars>>

g == Generator(imports, decls)
g2 == Generator(imports2, decls2)

IsImport(decl) == decl.kind = "import"
NotImport(decl) == decl.kind # "import"

\* The paths of the import specs of the declarations ds.
SpecPaths(ds) ==
    UNION {{ds[i].specs[j].path : j \in 1..Len(ds[i].specs)} : i \in 1..Len(ds)}

\* NewServer: not running, nothing closed, no goroutine in a call.
NewServer ==
    /\ running = FALSE
    /\ shouldCloseReader = FALSE
    /\ shouldCloseWriter = FALSE
    /\ rClosed = FALSE
    /\ wClosed = FALSE
    /\ rBroken = FALSE
    /\ pending = 0
    /\ arrived = 0
    /\ calls = 0
    /\ pc = [p \in Procs |-> "idle"]
    /\ call = [p \in Procs |-> "none"]
    /\ ret = [p \in Procs |-> "none"]
    /\ nread = [p \in Procs |-> 0]
    /\ nhandled = [p \in Procs |-> 0]
    /\ nwritten = [p \in Procs |-> 0]
    /\ stopped = [p \in Procs |-> FALSE]

Init ==
    /\ NewServer
    /\ imports = NewGenerator.imports
    /\ decls = NewGenerator.decls
    /\ op = "new"
    /\ err = Nil
    /\ written = <<>>
    /\ imports2 = NewGenerator.imports
    /\ decls2 = NewGenerator.decls
    /\ rendered = <<>>
    /\ literals = {}

\* The declarations in the text of template s, in order.
TextDecls(s) ==
    LET text == SelectSeq(s.ops, LAMBDA o : o.op = "text")
    IN  [i \in 1..Len(text) |-> text[i].decl]

Declare(s, data) ==
    \E r \in {DeclareFromTemplate(g, s, data)},
       r2 \in {DeclareFromTemplate(g2, s, data)} :
    /\ Len(r.g.decls) <= MaxDecls
    /\ imports' = r.g.imports
    /\ decls' = r.g.decls
    /\ op' = "Declare"
    /\ err' = r.err
    /\ written' = <<>>
    /\ imports2' = r2.g.imports
    /\ decls2' = r2.g.decls
    /\ rendered' = IF r.err = Nil
                   THEN rendered \o SelectSeq(TextDecls(s), NotImport)
                   ELSE rendered
    /\ literals' = IF r.err = Nil THEN literals \cup SpecPaths(TextDecls(s))
                   ELSE literals
    /\ UNCHANGED svars

WriteWith(outcome) ==
    \E r \in {Write(g, outcome)} :
    /\ imports' = r.g.imports
    /\ decls' = r.g.decls
    /\ op' = "Write"
    /\ err' = r.err
    /\ written' = r.written
    /\ UNCHANGED <<imports2, decls2, rendered, literals>>
    /\ UNCHANGED svars

DoWrite == \E outcome \in Outcomes : WriteWith(outcome)

DoDeclare == \E c \in Calls : Declare(c[1], c[2])

Next == DoDeclare \/ DoWrite

Spec == Init /\ [][Next]_vars

(***************************************************************************)
(* Server.Serve and Server.Stop, step by step.                             *)
(***************************************************************************)

ErrRunning == "server is already running"
ErrRead == "ReadError"
ErrHandle == "HandlerError"
ErrWrite == "ResponseWriteError"

\* Goroutine p is in the loop of Serve (lines 250-269).
InLoop(p) == pc[p] \in {"s_loop", "s_read", "s_readerr", "s_handle", "s_write"}

\* Serve that defers closeReaderWriter before it tests the running flag.
ServeSwap_DeferFirst(old) ==
    IF old THEN [pc |-> "s_exit", ret |-> ErrRunning]
    ELSE [pc |-> "s_loop", ret |-> "none"]

\* Lines 244-248: after s.running.Swap(true) returned old.
ServeSwap(old) ==
    IF old THEN [pc |-> "idle", ret |-> ErrRunning]
    ELSE [pc |-> "s_loop", ret |-> "none"]

\* Line 250: the loop condition s.running.Load() gave run.
ServeLoop(run) ==
    IF run THEN [pc |-> "s_read", ret |-> "none"]
    ELSE [pc |-> "s_exit", ret |-> Nil]

\* Lines 252-259: Read failed and s.running.Load() gave run.
ServeReadErr(run) ==
    IF ~run THEN [pc |-> "s_exit", ret |-> Nil]
    ELSE [pc |-> "s_exit", ret |-> ErrRead]

\* Serve that goes on with the next request when the handler fails.
ServeHandled_Continues(ok) ==
    IF ok THEN [pc |-> "s_write", ret |-> "none"]
    ELSE [pc |-> "s_loop", ret |-> "none"]

\* Lines 261-264: h.Handle(req) returned, without an error when ok.
ServeHandled(ok) ==
    IF ok THEN [pc |-> "s_write", ret |-> "none"]
    ELSE [pc |-> "s_exit", ret |-> ErrHandle]

\* Lines 266-268: s.w.Write(res) returned, without an error when ok.
ServeWrote(ok) ==
    IF ok THEN [pc |-> "s_loop", ret |-> "none"]
    ELSE [pc |-> "s_exit", ret |-> ErrWrite]

\* Stop that calls closeReader whatever Swap returned.
StopSwap_Always(old) == "t_store"

\* Lines 278-281: after s.running.Swap(false) returned old.
StopSwap(old) == IF old THEN "t_store" ELSE "idle"

\* A goroutine calls Serve.
CallServe(p) ==
    /\ pc[p] = "idle"
    /\ calls < MaxCalls
    /\ calls' = calls + 1
    /\ pc' = [pc EXCEPT ![p] = "s_swap"]
    /\ call' = [call EXCEPT ![p] = "Serve"]
    /\ ret' = [ret EXCEPT ![p] = "none"]
    /\ nread' = [nread EXCEPT ![p] = 0]
    /\ nhandled' = [nhandled EXCEPT ![p] = 0]
    /\ nwritten' = [nwritten EXCEPT ![p] = 0]
    /\ stopped' = [stopped EXCEPT ![p] = FALSE]
    /\ UNCHANGED <<running, shouldCloseReader, shouldCloseWriter, rClosed,
                   wClosed, rBroken, pending, arrived>>
    /\ UNCHANGED gvars

\* A goroutine calls Stop.
CallStop(p) ==
    /\ pc[p] = "idle"
    /\ calls < MaxCalls
    /\ calls' = calls + 1
    /\ pc' = [pc EXCEPT ![p] = "t_swap"]
    /\ call' = [call EXCEPT ![p] = "Stop"]
    /\ ret' = [ret EXCEPT ![p] = "none"]
    /\ nread' = [nread EXCEPT ![p] = 0]
    /\ nhandled' = [nhandled EXCEPT ![p] = 0]
    /\ nwritten' = [nwritten EXCEPT ![p] = 0]
    /\ stopped' = [stopped EXCEPT ![p] = FALSE]
    /\ UNCHANGED <<running, shouldCloseReader, shouldCloseWriter, rClosed,
                   wClosed, rBroken, pending, arrived>>
    /\ UNCHANGED gvars

\* Line 244: s.running.Swap(true).
ServeSwapStep(p) ==
    /\ pc[p] = "s_swap"
    /\ \E r \in {ServeSwap(running)} :
          /\ pc' = [pc EXCEPT ![p] = r.pc]
          /\ ret' = [ret EXCEPT ![p] = r.ret]
    /\ running' = TRUE
    /\ UNCHANGED <<shouldCloseReader, shouldCloseWriter, rClosed, wClosed,
                   rBroken, pending, arrived, calls, call, nread, nhandled,
                   nwritten, stopped>>
    /\ UNCHANGED gvars

\* Line 250: for s.running.Load().
ServeLoopStep(p) ==
    /\ pc[p] = "s_loop"
    /\ \E r \in {ServeLoop(running)} :
          /\ pc' = [pc EXCEPT ![p] = r.pc]
          /\ ret' = [ret EXCEPT ![p] = r.ret]
    /\ UNCHANGED <<running, shouldCloseReader, shouldCloseWriter, rClosed,
                   wClosed, rBroken, pending, arrived, calls, call, nread,
                   nhandled, nwritten, stopped>>
    /\ UNCHANGED gvars

\* Line 251: s.r.Read() returns: it waits until a frame has arrived, the
\* reader is closed or its stream has failed.
ServeReadStep(p) ==
    /\ pc[p] = "s_read"
    /\ pending > 0 \/ rClosed \/ rBroken
    /\ IF rClosed \/ rBroken
       THEN /\ pc' = [pc EXCEPT ![p] = "s_readerr"]
            /\ UNCHANGED <<pending, nread>>
       ELSE /\ pc' = [pc EXCEPT ![p] = "s_handle"]
            /\ pending' = pending - 1
            /\ nread' = [nread EXCEPT ![p] = @ + 1]
    /\ UNCHANGED <<running, shouldCloseReader, shouldCloseWriter, rClosed,
                   wClosed, rBroken, arrived, calls, call, ret, nhandled,
                   nwritten, stopped>>
    /\ UNCHANGED gvars

\* Lines 252-259: the read failed; s.running.Load() decides what is returned.
ServeReadErrStep(p) ==
    /\ pc[p] = "s_readerr"
    /\ \E r \in {ServeReadErr(running)} :
          /\ pc' = [pc EXCEPT ![p] = r.pc]
          /\ ret' = [ret EXCEPT ![p] = r.ret]
    /\ UNCHANGED <<running, shouldCloseReader, shouldCloseWriter, rClosed,
                   wClosed, rBroken, pending, arrived, calls, call, nread,
                   nhandled, nwritten, stopped>>
    /\ UNCHANGED gvars

\* Lines 261-264: h.Handle(req) returns.
ServeHandleStep(p) ==
    /\ pc[p] = "s_handle"
    /\ \E ok \in BOOLEAN : \E r \in {ServeHandled(ok)} :
          /\ pc' = [pc EXCEPT ![p] = r.pc]
          /\ ret' = [ret EXCEPT ![p] = r.ret]
          /\ nhandled' = [nhandled EXCEPT ![p] = IF ok THEN @ + 1 ELSE @]
    /\ UNCHANGED <<running, shouldCloseReader, shouldCloseWriter, rClosed,
                   wClosed, rBroken, pending, arrived, calls, call, nread,
                   nwritten, stopped>>
    /\ UNCHANGED gvars

\* Lines 266-268: s.w.Write(res) returns; a closed writer fails.
ServeWriteStep(p) ==
    /\ pc[p] = "s_write"
    /\ \E ok \in BOOLEAN : \E r \in {ServeWrote(ok)} :
          /\ wClosed => ~ok
          /\ pc' = [pc EXCEPT ![p] = r.pc]
          /\ ret' = [ret EXCEPT ![p] = r.ret]
          /\ nwritten' = [nwritten EXCEPT ![p] = IF ok THEN @ + 1 ELSE @]
    /\ UNCHANGED <<running, shouldCloseReader, shouldCloseWriter, rClosed,
                   wClosed, rBroken, pending, arrived, calls, call, nread,
                   nhandled, stopped>>
    /\ UNCHANGED gvars

\* Lines 248 and 291-294: Serve returns and the deferred closeReaderWriter
\* closes the reader and the writer.
ServeExitStep(p) ==
    /\ pc[p] = "s_exit"
    /\ rClosed' = TRUE
    /\ wClosed' = TRUE
    /\ pc' = [pc EXCEPT ![p] = "idle"]
    /\ UNCHANGED <<running, shouldCloseReader, shouldCloseWriter, rBroken,
                   pending, arrived, calls, call, ret, nread, nhandled,
                   nwritten, stopped>>
    /\ UNCHANGED gvars

\* Line 278: s.running.Swap(false).
StopSwapStep(p) ==
    /\ pc[p] = "t_swap"
    /\ \E next \in {StopSwap(running)} :
          /\ pc' = [pc EXCEPT ![p] = next]
          /\ ret' = [ret EXCEPT ![p] = IF next = "idle" THEN Nil ELSE "none"]
    /\ running' = FALSE
    /\ stopped' = [q \in Procs |-> stopped[q] \/ InLoop(q)]
    /\ UNCHANGED <<shouldCloseReader, shouldCloseWriter, rClosed, wClosed,
                   rBroken, pending, arrived, calls, call, nread, nhandled,
                   nwritten>>
    /\ UNCHANGED gvars

\* Line 285: s.shouldCloseReader.Store(true).
StopStoreStep(p) ==
    /\ pc[p] = "t_store"
    /\ shouldCloseReader' = TRUE
    /\ pc' = [pc EXCEPT ![p] = "t_load"]
    /\ UNCHANGED <<running, shouldCloseWriter, rClosed, wClosed, rBroken,
                   pending, arrived, calls, call, ret, nread, nhandled,
                   nwritten, stopped>>
    /\ UNCHANGED gvars

\* Lines 286-288 and 281: closeReader closes the reader and the writer when
\* s.shouldCloseWriter is set, and Stop returns nil.
StopLoadStep(p) ==
    /\ pc[p] = "t_load"
    /\ rClosed' = (rClosed \/ shouldCloseWriter)
    /\ wClosed' = (wClosed \/ shouldCloseWriter)
    /\ pc' = [pc EXCEPT ![p] = "idle"]
    /\ ret' = [ret EXCEPT ![p] = Nil]
    /\ UNCHANGED <<running, shouldCloseReader, shouldCloseWriter, rBroken,
                   pending, arrived, calls, call, nread, nhandled, nwritten,
                   stopped>>
    /\ UNCHANGED gvars

\* A frame arrives at the reader.
Arrive ==
    /\ arrived < MaxFrames
    /\ arrived' = arrived + 1
    /\ pending' = pending + 1
    /\ UNCHANGED <<running, shouldCloseReader, shouldCloseWriter, rClosed,
                   wClosed, rBroken, calls, pc, call, ret, nread, nhandled,
                   nwritten, stopped>>
    /\ UNCHANGED gvars

\* The stream under the reader fails.
Break ==
    /\ ~rBroken
    /\ rBroken' = TRUE
    /\ UNCHANGED <<running, shouldCloseReader, shouldCloseWriter, rClosed,
                   wClosed, pending, arrived, calls, pc, call, ret, nread,
                   nhandled, nwritten, stopped>>
    /\ UNCHANGED gvars

\* The steps goroutine p takes inside a call.
Step(p) ==
    \/ ServeSwapStep(p)
    \/ ServeLoopStep(p)
    \/ ServeReadStep(p)
    \/ ServeReadErrStep(p)
    \/ ServeHandleStep(p)
    \/ ServeWriteStep(p)
    \/ ServeExitStep(p)
    \/ StopSwapStep(p)
    \/ StopStoreStep(p)
    \/ StopLoadStep(p)

ServerNext ==
    \/ \E p \in Procs : CallServe(p) \/ CallStop(p) \/ Step(p)
    \/ Arrive
    \/ Break

SpecServer == Init /\ [][ServerNext]_vars

\* Every goroutine inside a call goes on running; the frames that arrive and
\* the calls that are made are up to the environment.
SpecServerFair == SpecServer /\ \A p \in Procs : WF_vars(Step(p))

(***************************************************************************)
(* Claims                                                                  *)
(***************************************************************************)

\* The last call was a Declare that returned an error.
DeclareFailed == op = "Declare" /\ err # Nil

\* C1: a Declare call that returns an error leaves the whole generator state
\* as it was: the import map and the declaration sequence are both unchanged,
\* also when the template called `import` before it failed.
C1_FailedDeclareLeavesState ==
    [][DeclareFailed' => imports' = imports /\ decls' = decls]_vars

\* C2: a Declare call that fails leaves the declaration sequence exactly as it
\* was before the call; nothing of the failing snippet is appended.
C2_FailedDeclareLeavesDecls ==
    [][DeclareFailed' => decls' = decls]_vars

\* A Declare failed in template execution, for want of a field, on a
\* generator that holds two declarations.
C2_Witness ==
    /\ DeclareFailed
    /\ err = ErrTemplateExecution
    /\ Len(decls) = 2

\* The declarations of file f that are not import declarations.
NonImports(f) == SelectSeq(f.Decls, NotImport)

\* The file the next Write would emit.
NextFile == Write(g, "ok").written[1]

\* C3: after any interleaving of Declare and Write calls, what the next Write
\* emits beside the import block is exactly the concatenation, in call order,
\* of the non-import declarations of every successful Declare, each snippet's
\* in the order of the snippet; a Write that just happened emitted that too.
C3_DeclarationOrder ==
    /\ NonImports(NextFile) = rendered
    /\ op = "Write" /\ err = Nil => NonImports(written[1]) = rendered

\* A Write emitted three declarations, which took at least two Declare calls.
C3_Witness ==
    /\ op = "Write" /\ err = Nil
    /\ Len(rendered) = 3
    /\ rendered[1] # rendered[2]
    /\ NonImports(written[1]) = rendered

\* C4: in every reachable state no two distinct import paths are bound to the
\* same alias.
C4_AliasesDistinct ==
    \A p, q \in DOMAIN imports : p # q => imports[p] # imports[q]

\* b/u got the suffixed alias u1, and c/u1, whose last segment is u1, was
\* registered after it and got another alias.
C4_Witness ==
    /\ DOMAIN imports = {PathAU, PathBU, PathCU1}
    /\ imports[PathAU] = <<"u">>
    /\ imports[PathBU] = <<"u", "1">>
    /\ imports[PathCU1] = <<"u", "1", "1">>

\* C5: once a path is bound to an alias, every later step leaves that binding
\* as it is, and a later Request for the path returns that alias and changes
\* nothing.
C5_BindingStable ==
    [][\A p \in DOMAIN imports :
         /\ p \in DOMAIN imports'
         /\ imports'[p] = imports[p]
         /\ Import(imports', p) = [imports |-> imports', alias |-> imports[p]]]_vars

\* a/u is bound to u, and a successful Declare rendered the literal import
\* x "a/u".
C5_Witness ==
    /\ PathAU \in DOMAIN imports
    /\ imports[PathAU] = <<"u">>
    /\ PathAU \in literals
    /\ op = "Declare" /\ err = Nil

C7_WriteLeavesState ==
    [][op' = "Write" =>
         /\ imports' = imports
         /\ decls' = decls
         /\ (op = "Write" /\ err = Nil /\ err' = Nil => written' = written)]_vars

\* A Write on a generator that holds imports and declarations.
C7_Witness ==
    /\ op = "Write" /\ err = Nil
    /\ DOMAIN imports # {}
    /\ Len(decls) = MaxDecls

\* C8: the file Write emits is the import block followed by the accumulated
\* declarations when an import is registered, and the accumulated declarations
\* alone when none is; the import block is the first declaration and the only
\* import declaration.
C8_WriteOutput ==
    op = "Write" /\ err = Nil =>
        /\ Len(written) = 1
        /\ LET f == written[1].Decls IN
           IF DOMAIN imports = {} THEN f = decls
           ELSE /\ f = <<importDecl(imports)>> \o decls
                /\ IsImport(f[1])
                /\ \A i \in 2..Len(f) : NotImport(f[i])

\* A Write emitted an import block and two declarations.
C8_Witness ==
    /\ op = "Write" /\ err = Nil
    /\ Cardinality(DOMAIN imports) = 3
    /\ Len(decls) = 2
    /\ Len(written[1].Decls) = 3

\* C9: the accumulated declarations are the non-import declarations of the
\* successful Declare calls, so none of them is an import declaration, and
\* every path of an import statement in a successfully declared snippet is
\* bound in the import map.
C9_ImportsMergedDeclsAppended ==
    /\ decls = rendered
    /\ \A i \in 1..Len(decls) : NotImport(decls[i])
    /\ literals \subseteq DOMAIN imports

\* Successful Declare calls rendered import statements for three paths and
\* a declaration.
C9_Witness ==
    /\ literals = {PathAU, PathBU, PathCU1}
    /\ decls # <<>>
    /\ op = "Declare" /\ err = Nil

\* The names a registration of path p may ask for: its last segment, or the
\* name a literal import statement gives it.
RequestNames(p) ==
    {LastSegment(p)} \cup
    UNION {{d.specs[i].name : i \in {j \in 1..Len(d.specs) :
                                      /\ d.specs[j].path = p
                                      /\ d.specs[j].name # <<>>}}
           : d \in LiteralImports}

\* Alias a of path p in map m is a name p asked for when no other path holds
\* that name, and else that name with the least numeric suffix no other path
\* holds.
AliasByRule(m, p) ==
    LET others == {m[q] : q \in DOMAIN m \ {p}} IN
    /\ m[p] \notin others
    /\ \E name \in RequestNames(p) :
          \/ m[p] = name
          \/ /\ name \in others
             /\ \E n \in 1..Cardinality(DOMAIN m) :
                   /\ m[p] = name \o Itoa(n)
                   /\ \A k \in 1..(n - 1) : (name \o Itoa(k)) \in others

\* The import block of map m has a spec for path p with p's alias.
BlockLists(m, p) ==
    LET specs == importDecl(m).specs
    IN  \E i \in 1..Len(specs) : specs[i] = ImportSpec(p, m[p])

\* C10: a registration always ends with an alias: every path a step binds
\* gets the name it asked for, or that name with the least free numeric
\* suffix when another path holds the name, so that a/u and b/u get two
\* distinct aliases; the import block lists the path with that alias.
C10_AliasRule ==
    [][\A p \in DOMAIN imports' \ DOMAIN imports :
         AliasByRule(imports', p) /\ BlockLists(imports', p)]_vars

\* a/u and then b/u were requested: b/u has the suffixed alias.
C10_Witness ==
    /\ DOMAIN imports = {PathAU, PathBU}
    /\ imports[PathAU] = <<"u">>
    /\ imports[PathBU] = <<"u", "1">>

\* C11: the import block is nothing when no import is registered, and else
\* one import declaration that lists every registered path exactly once with
\* its alias, in increasing order of the paths, whatever the order in which
\* the paths were requested.
C11_FinalBlock ==
    LET d == importDecl(imports) IN
    IF DOMAIN imports = {} THEN d = NilDecl
    ELSE /\ IsImport(d)
         /\ Len(d.specs) = Cardinality(DOMAIN imports)
         /\ \A p \in DOMAIN imports :
               \E i \in 1..Len(d.specs) : d.specs[i] = ImportSpec(p, imports[p])
         /\ \A i, j \in 1..Len(d.specs) :
               i < j => StrLess(d.specs[i].path, d.specs[j].path)

\* Three paths are registered, b/u before a/u (b/u holds the bare alias), and
\* the block lists a/u first.
C11_Witness ==
    /\ DOMAIN imports = {PathAU, PathBU, PathCU1}
    /\ imports[PathBU] = <<"u">>
    /\ imports[PathAU] = <<"u", "1">>
    /\ importDecl(imports).specs[1].path = PathAU
    /\ importDecl(imports).specs[3].path = PathCU1

C18_SyntaxErrorBeforeExecution ==
    [][op' = "Declare" /\ err' = ErrTemplateSyntax =>
         /\ imports' = imports
         /\ decls' = decls
         /\ rendered' = rendered]_vars

\* A malformed template was declared on a generator that holds a declaration
\* and no import.
C18_Witness ==
    /\ op = "Declare"
    /\ err = ErrTemplateSyntax
    /\ DOMAIN imports = {}
    /\ Len(decls) = 1

(***************************************************************************)
(* Claims about the frame Server                                           *)
(***************************************************************************)

\* C13: at most one request is being served at any time: never two Serve
\* loops active at once and never two Handle invocations in progress.
C13_OneServeAtATime ==
    /\ Cardinality({p \in Procs : InLoop(p)}) <= 1
    /\ Cardinality({p \in Procs : pc[p] = "s_handle"}) <= 1

\* The request counters of a Serve call agree: nothing read is left
\* unanswered.
Balanced(p) == nread[p] = nhandled[p] /\ nhandled[p] = nwritten[p]

\* The last request read has not been handled and has no response.
FailedInHandle(p) == nread[p] = nhandled[p] + 1 /\ nwritten[p] = nhandled[p]

\* The last request read has been handled and has no response.
FailedInWrite(p) == nread[p] = nhandled[p] /\ nhandled[p] = nwritten[p] + 1

C15_StoppedReadErrorIgnored ==
    [][\A p \in Procs :
          /\ (pc[p] = "s_readerr" /\ stopped[p] /\ pc'[p] # "s_readerr")
                => ret'[p] = Nil
          /\ (call'[p] = "Serve" /\ ret'[p] = Nil) => stopped'[p]]_vars

\* C16: Stop on a Server that is not running returns nil and leaves the
\* running flag, both shouldClose flags and the reader and writer as they were.
C16_StopNotRunningNoOp ==
    [][\A p \in Procs :
          (pc[p] = "t_swap" /\ ~running /\ pc'[p] # "t_swap")
             => /\ pc'[p] = "idle"
                /\ ret'[p] = Nil
                /\ UNCHANGED <<running, shouldCloseReader, shouldCloseWriter,
                               rClosed, wClosed, rBroken, pending>>]_vars

\* A Stop found the Server not running and returned, and a later Serve is
\* handling a request.
C16_Witness ==
    \E p, q \in Procs :
        /\ call[p] = "Stop"
        /\ pc[p] = "idle"
        /\ ret[p] = Nil
        /\ ~shouldCloseReader
        /\ pc[q] = "s_handle"
        /\ running

\* C17: Serve on a running Server returns "server is already running" and
\* reads nothing, handles nothing, closes nothing and leaves the running flag
\* and every other goroutine's call as they were.
C17_ServeWhileRunning ==
    [][\A p \in Procs :
          (pc[p] = "s_swap" /\ running /\ pc'[p] # "s_swap")
             => /\ pc'[p] = "idle"
                /\ ret'[p] = ErrRunning
                /\ nread'[p] = 0
                /\ nhandled'[p] = 0
                /\ UNCHANGED <<running, shouldCloseReader, shouldCloseWriter,
                               rClosed, wClosed, rBroken, pending>>
                /\ \A q \in Procs \ {p} : pc'[q] = pc[q] /\ ret'[q] = ret[q]]_vars

\* A Serve call was refused while another one is handling a request with the
\* reader and the writer open.
C17_Witness ==
    \E p, q \in Procs :
        /\ call[p] = "Serve"
        /\ pc[p] = "idle"
        /\ ret[p] = ErrRunning
        /\ pc[q] = "s_handle"
        /\ running
        /\ ~rClosed
        /\ ~wClosed

\* C19: a Serve call that was in progress when Stop was called eventually
\* returns, even when no further request arrives.
C19_StopEndsServe ==
    \A p \in Procs : (stopped[p] /\ InLoop(p)) ~> ~InLoop(p)

====
